---- MODULE Spec2Model ----
(***************************************************************************)
(* Model of the ICE submission log-status scripts under submissions/aud:   *)
(*   ice_status_all.py  - the dashboard engine (split_runs_early,          *)
(*                        pick_block_for_window, classify_block_status)    *)
(*   ice_status_aud.py  - the TZ-aware AUD parser (evaluate_block)         *)
(*   file2audforus.py   - the AUD parser prototype (evaluate_block)        *)
(*                                                                         *)
(* A log line is a record [lead, ts, marks, sp]; two lines are the same     *)
(* string exactly when their records are equal.  Every stamp and every     *)
(* four-digit lead of the logs is of the year 2024.                        *)
(*   lead  - how the line begins:                                          *)
(*     "stamp"   yyyy/mm/dd hh:mm:ss in its first column, followed by the  *)
(*               end of the line or by a character that is no letter, no   *)
(*               digit and no underscore: a blank, or a comma or a colon   *)
(*               and then a blank ("2024/01/02 10:00:00 ...",              *)
(*               "2024/01/02 10:00:00, ...", "2024/01/02 10:00:00: ...")   *)
(*     "stampw"  the same stamp with a letter, a digit or an underscore    *)
(*               right after it ("2024/01/02 10:00:00Z ...")               *)
(*     "digits"  blanks or none, then the four digits 2024 and no digit    *)
(*               after them; not a stamp as above ("2024 ...",             *)
(*               "2024-01-02 10:00:00 ...", " 2024/01/02 10:00:00 ...")    *)
(*     "bracket" blanks or none, one [ or (, the four digits 2024, and at  *)
(*               least one character before the first marker ("[2024] ...",*)
(*               "[2024/01/02 10:00:00] ...")                              *)
(*     "glued"   the four digits 2024 in the first column and the first    *)
(*               marker's text right after them ("2024WARN - Curve ...")   *)
(*     "curve"   blanks or none, then "- Curve [1] not sent. Invalid !":   *)
(*               the second line of a WARN entry broken after WARN         *)
(*     "text"    a letter first ("INFO ...", "INFO 2024/01/02 10:00:00 ...")*)
(*     "blank"   the line is empty or holds blanks only                    *)
(*   ts    - the first timestamp-shaped text of the line, wherever it is   *)
(*           and with / or - in its date: the instant it parses to         *)
(*           (seconds: the day count times a day's seconds plus the time   *)
(*           of day), BadDate when it is no date (2024/13/45 10:00:00),    *)
(*           None when the line holds none                                 *)
(*   marks - the marker texts of the line, from left to right, as records  *)
(*           [kind, arg]; each stands after a blank (the first one of a    *)
(*           "glued" line after the digits).  arg is the digit string the  *)
(*           marker's (\d+) group finds on the line, as the sequence of    *)
(*           its digits; it is <<>> for a marker that has no figure and    *)
(*           for a marker whose figure is not written after it: the text   *)
(*           then stops before the figure (and, when the marker is the     *)
(*           last of the line, so does the line)                           *)
(*   sp    - the spelling: a number that tells apart the strings that      *)
(*           agree in lead, ts and marks and that every pattern treats     *)
(*           alike ("2024 WARN  - Curve ..." with two blanks, a stamp a    *)
(*           blank follows and one a colon follows, the empty line and a   *)
(*           line of blanks); 0 for the first                              *)
(* What a line holds besides its lead, its stamp and its markers is words  *)
(* that are part of no marker's text and hold no digit.                    *)
(*                                                                         *)
(*   kind        text of the marker                                        *)
(*   "endok"     Program is ending successfully                            *)
(*   "enderr"    Program is ending with error                              *)
(*   "ending"    Program is ending now                                     *)
(*   "valerr"    Validation Error(s): <arg>                                *)
(*   "missclr"   Missing Clearable Prices: <arg>                           *)
(*   "missqtb"   Missing Prices (Quotable only): <arg>                     *)
(*   "missgen"   Missing Prices: <arg>                                     *)
(*   "warn"      WARN - Curve [<arg>] not sent. Invalid !                  *)
(*               (with arg <<>>: WARN, and nothing of what follows it)     *)
(*   "good"      GoodFiles                                                 *)
(*   "bad"       BadFiles                                                  *)
(*   "sub"       Total Prices to be submitted: <arg>                       *)
(*   "val"       Total validated Prices submitted: <arg>                   *)
(*   "con"       Contributed Prices: <arg>                                 *)
(*   "pct"       (100%)                                                    *)
(*   "pctdec"    (100.00%)                                                 *)
(*   "skipauto"  Skipping auto submission                                  *)
(*   "skipsub"   Skipping submission                                       *)
(*   "rej"       Rejected Index Option quotes <arg>                        *)
(*   "acc"       Accepted Index Option quotes <arg>                        *)
(*   "closed"    The settlement window is CLOSED                           *)
(*   "closedlc"  the settlement window is closed                           *)
(*                                                                         *)
(* A text (a log, a block, a note) is the sequence of its lines.  The      *)
(* patterns of the scripts are searched in the whole text: the blanks a    *)
(* pattern allows before its figure, and those WARN_CURVE_LINE allows      *)
(* after WARN, may be line breaks, so that a marker which ends a line      *)
(* goes on with what the next line that is not blank begins with.          *)
(***************************************************************************)
EXTENDS Integers, Sequences, FiniteSets, TLC

VARIABLES
    early_text,   \* ice_status_all: the lines of the EarlyRun log written so far
    pc,           \* ice_status_all build_rows: "log" before the log is read, "rows" after
    blocks,       \* ice_status_all build_rows: split_runs_early(early_text)
    slot,         \* ice_status_all build_rows: the last status_for_window call
    script,       \* which script's evaluate_block runs: "aud", "f2a", or "none" yet
    block_lines,  \* the block the script captured for evaluate_block
    evaluated,    \* evaluate_block's result (status, reasons), once it ran
    early_file,   \* ice_status_all build_rows: the EarlyRun log file of one row
    final_file,   \* ice_status_all build_rows: the FinalRun (or summary) file of one row
    row,          \* ice_status_all build_rows: the row and the notes built from the two files
    summary_text, \* ice_status_all: the lines of an IndexOption submission summary
    summary_status, \* parse_idxopt_final_from_summary's result, once it ran
    aud_log,      \* ice_status_aud: the lines of the log file main reads
    aud_run       \* ice_status_aud main: the arguments, the block extracted and its status

vars == <<early_text, pc, blocks, slot, script, block_lines, evaluated,
          early_file, final_file, row, summary_text, summary_status, aud_log, aud_run>>

allVars == <<early_text, pc, blocks, slot>>
evalVars == <<script, block_lines, evaluated>>
rowVars == <<early_file, final_file, row>>
summaryVars == <<summary_text, summary_status>>
audVars == <<aud_log, aud_run>>

----------------------------------------------------------------------------
(* Bounds of the model *)

\* longest EarlyRun log, in lines
MaxLines == 3

\* longest block handed to evaluate_block, in lines
MaxBlockLen == 4

----------------------------------------------------------------------------
(* Values *)

\* Python's None, where an instant or a match is expected
None == -1

\* dt.time(h, m) as seconds since midnight; dt.datetime.combine(day, t) as seconds
Time(h, m) == h * 3600 + m * 60
Combine(day, t) == day * (24 * 3600) + t

\* timestamp-shaped text that strptime refuses
BadDate == -2

\* the digits every stamp and every four-digit lead of the logs begins with
Year == <<2, 0, 2, 4>>

Mark(kind, arg) == [kind |-> kind, arg |-> arg]

\* a line with one marker, or with none when kind is "plain"
Line(lead, ts, kind, arg) ==
    [lead |-> lead, ts |-> ts,
     marks |-> IF kind = "plain" THEN <<>> ELSE <<Mark(kind, arg)>>,
     sp |-> 0]

\* the line with one more marker at its end
With(line, kind, arg) == [line EXCEPT !.marks = Append(@, Mark(kind, arg))]

\* the same line spelt otherwise: another string for which every pattern
\* gives what it gives for the line
Spelt(line, n) == [line EXCEPT !.sp = n]

\* a line that begins with its timestamp when it has one
L(ts, kind, arg) == Line(IF ts = None THEN "text" ELSE "stamp", ts, kind, arg)

\* the empty line
BlankLine == Line("blank", None, "plain", <<>>)

\* int() of a digit string
RECURSIVE IntOf(_)
IntOf(ds) == IF ds = <<>> THEN 0 ELSE 10 * IntOf(SubSeq(ds, 1, Len(ds) - 1)) + ds[Len(ds)]

\* WINDOWS of ice_status_all.py (start, end)
WINDOWS ==
    [EarlyRun |-> <<Time(9, 30), Time(10, 30)>>,
     Latest1  |-> <<Time(15, 45), Time(16, 5)>>,
     Latest2  |-> <<Time(16, 5), Time(16, 25)>>]

WindowNames == {"EarlyRun", "Latest1", "Latest2"}

\* the --date the dashboard is built for, as a day count
Day == 1

----------------------------------------------------------------------------
(* ice_status_all.py: regular expressions, searched in a line or in a text *)

\* _TIMESTAMP.search(line) and strptime: the instant, or None
parse_timestamp_from_line(line) == IF line.ts >= 0 THEN line.ts ELSE None

\* the line holds a marker of one of the kinds
Holds(line, kinds) == \E k \in 1..Len(line.marks) : line.marks[k].kind \in kinds

\* _SUCCESS_LINE.search(line)
SuccessLine(line) == Holds(line, {"endok"})

\* what \s*(\d+) finds where line i begins: the digits the first line from
\* there on that is not blank begins with, <<>> when it begins with none or
\* the text has no such line
RECURSIVE LeadingFigure(_, _)
LeadingFigure(text, i) ==
    IF i > Len(text) THEN <<>>
    ELSE IF text[i].lead = "blank" THEN LeadingFigure(text, i + 1)
    ELSE IF text[i].lead \in {"stamp", "stampw", "digits", "glued"} THEN Year
    ELSE <<>>

\* the (\d+) group of a pattern at marker k of line i: the figure written
\* after the marker; for a marker that ends its line without one, the digits
\* the text goes on with; <<>> when the pattern does not match there.  The
\* .*?\) of MISSING_QUOTABLE may run on to a later ")" of the line: without
\* a figure of its own, "Missing Prices (Quotable ..." takes the figure of
\* the first later marker of the line whose text ends in "):" and has one
RECURSIVE Figure(_, _, _)
RECURSIVE ParenFigure(_, _, _)
ParenFigure(text, i, k) ==
    IF k > Len(text[i].marks) THEN <<>>
    ELSE IF text[i].marks[k].kind \in {"valerr", "missqtb"} /\ Figure(text, i, k) # <<>>
         THEN Figure(text, i, k)
    ELSE ParenFigure(text, i, k + 1)

Figure(text, i, k) ==
    LET m == text[i].marks[k] IN
    IF m.arg # <<>> THEN m.arg
    ELSE IF k = Len(text[i].marks) THEN LeadingFigure(text, i + 1)
    ELSE IF m.kind = "missqtb" THEN ParenFigure(text, i, k + 1)
    ELSE <<>>

\* the figure of the first match of the kind's pattern from marker k of line
\* i on, <<>> when there is no match
RECURSIVE FirstFrom(_, _, _, _)
FirstFrom(text, kind, i, k) ==
    IF i > Len(text) THEN <<>>
    ELSE IF k > Len(text[i].marks) THEN FirstFrom(text, kind, i + 1, 1)
    ELSE IF text[i].marks[k].kind = kind /\ Figure(text, i, k) # <<>>
         THEN Figure(text, i, k)
    ELSE FirstFrom(text, kind, i, k + 1)

\* pattern.search(text): group 1 of the match, <<>> for None
Search(text, kind) == FirstFrom(text, kind, 1, 1)

\* _int(pattern.search(block_text) or re.match(r"$^", "")): the first match's
\* figure as an int, 0 when nothing matches
CountOf(text, kind) == IntOf(Search(text, kind))

\* ^\s*[\[\(]?\d{4}.+? of WARN_CURVE_LINE before the WARN of marker k: the
\* line begins with four digits and has a character between them and WARN
WarnLead(line, k) ==
    \/ line.lead \in {"stamp", "stampw", "digits", "bracket"}
    \/ line.lead = "glued" /\ k > 1

\* WARN_CURVE_LINE matches from the start of the line to its end
WarnCurveLine(line) ==
    \E k \in 1..Len(line.marks) :
        /\ line.marks[k].kind = "warn"
        /\ line.marks[k].arg # <<>>
        /\ WarnLead(line, k)

\* index of the first line from i on that is not blank, 0 when there is none
RECURSIVE NextText(_, _)
NextText(text, i) ==
    IF i > Len(text) THEN 0
    ELSE IF text[i].lead = "blank" THEN NextText(text, i + 1)
    ELSE i

\* the line with which the match of WARN_CURVE_LINE that begins with line i
\* ends, 0 when line i begins none: line i itself, or, when line i ends with
\* WARN, the next line that is not blank if it goes on with "- Curve [..."
WarnEnd(text, i) ==
    LET line == text[i]
        n    == Len(line.marks)
    IN  IF WarnCurveLine(line) THEN i
        ELSE IF n > 0 /\ line.marks[n] = Mark("warn", <<>>) /\ WarnLead(line, n)
        THEN LET j == NextText(text, i + 1) IN
             IF j # 0 /\ text[j].lead = "curve" THEN j ELSE 0
        ELSE 0

\* where a match that begins with line i starts: the \s* after ^ takes in the
\* blank lines that stand directly before the line
RECURSIVE MatchStart(_, _)
MatchStart(text, i) ==
    IF i > 1 /\ text[i - 1].lead = "blank" THEN MatchStart(text, i - 1) ELSE i

\* the matches from line i on, after those of acc; the search goes on after
\* the last line of a match
RECURSIVE WarnLinesFrom(_, _, _)
WarnLinesFrom(text, i, acc) ==
    IF i > Len(text) THEN acc
    ELSE LET e == WarnEnd(text, i) IN
         IF e = 0 THEN WarnLinesFrom(text, i + 1, acc)
         ELSE WarnLinesFrom(text, e + 1,
                            Append(acc, SubSeq(text, MatchStart(text, i), e)))

\* WARN_CURVE_LINE.findall(block_text): the matched strings, in order, each
\* as its lines (the blank lines taken in, the WARN line, and, for an entry
\* broken after WARN, the lines up to the one that holds the rest)
WarnLines(text) == WarnLinesFrom(text, 1, <<>>)

----------------------------------------------------------------------------
(* ice_status_all.py: split_runs_early *)

\* lines 139-146: the end line's own instant, else that of the nearest of the
\* three lines before it that has one (i is 1-based)
EndTs(lines, i) ==
    LET own == parse_timestamp_from_line(lines[i])
        Back(b) == IF i - b >= 1 THEN parse_timestamp_from_line(lines[i - b]) ELSE None
    IN  IF own # None THEN own
        ELSE IF Back(1) # None THEN Back(1)
        ELSE IF Back(2) # None THEN Back(2)
        ELSE Back(3)

\* SplitFrom without the last_cut = i + 1 of the skipped-block branch
RECURSIVE SplitFrom_NoCutOnSkip(_, _, _, _)
SplitFrom_NoCutOnSkip(lines, i, cut, acc) ==
    IF i > Len(lines) THEN acc
    ELSE IF SuccessLine(lines[i])
         THEN LET ts == EndTs(lines, i) IN
              IF ts = None
              THEN SplitFrom_NoCutOnSkip(lines, i + 1, cut, acc)
              ELSE SplitFrom_NoCutOnSkip(lines, i + 1, i + 1,
                       Append(acc, [ts |-> ts, text |-> SubSeq(lines, cut, i),
                                    lo |-> cut, hi |-> i]))
         ELSE SplitFrom_NoCutOnSkip(lines, i + 1, cut, acc)

\* the loop of lines 136-156 from line i on; cut is the 1-based index of the
\* first line of the pending block (last_cut + 1).  A block is (ts, block_text);
\* lo and hi record where block_text = lines[last_cut : i + 1] lies in the log.
RECURSIVE SplitFrom(_, _, _, _)
SplitFrom(lines, i, cut, acc) ==
    IF i > Len(lines) THEN acc
    ELSE IF SuccessLine(lines[i])
         THEN LET ts == EndTs(lines, i) IN
              IF ts = None
              THEN SplitFrom(lines, i + 1, i + 1, acc)
              ELSE SplitFrom(lines, i + 1, i + 1,
                       Append(acc, [ts |-> ts, text |-> SubSeq(lines, cut, i),
                                    lo |-> cut, hi |-> i]))
         ELSE SplitFrom(lines, i + 1, cut, acc)

split_runs_early(log_text) == SplitFrom(log_text, 1, 1, <<>>)

----------------------------------------------------------------------------
(* ice_status_all.py: classify_block_status *)

\* lines 190-195: where the harvested WARN curve lines go, as (info, caution)
NoteLines(miss_clr, miss_qtb, warn_lines) ==
    IF miss_clr > 0 THEN [info |-> <<>>, caution |-> warn_lines]
    ELSE IF miss_qtb > 0 THEN [info |-> warn_lines, caution |-> <<>>]
    ELSE [info |-> <<>>, caution |-> <<>>]

\* lines 197-200: the status cell; "OK" is the check mark, "NOK" the cross
\* (and "WAITING" the hourglass of status_for_window)
StatusCell(miss_clr, val_err) ==
    IF miss_clr > 0 \/ val_err > 0 THEN "NOK" ELSE "OK"

classify_block_status(block_text, submission_type) ==
    LET val_err  == CountOf(block_text, "valerr")
        miss_clr == CountOf(block_text, "missclr")
        miss_qtb == CountOf(block_text, "missqtb")
        miss_gen == CountOf(block_text, "missgen")
        warn_lines == WarnLines(block_text)
        notes == NoteLines(miss_clr, miss_qtb, warn_lines)
    IN  [status   |-> StatusCell(miss_clr, val_err),
         counters |-> [validation_errors |-> val_err,
                       missing_clearable |-> miss_clr,
                       missing_quotable  |-> miss_qtb,
                       missing_generic   |-> miss_gen],
         info     |-> notes.info,
         caution  |-> notes.caution]

----------------------------------------------------------------------------
(* ice_status_all.py: pick_block_for_window *)

\* an unstable insertion: x goes before the elements whose ts equals its own
RECURSIVE InsertByTs_BeforeEqual(_, _)
InsertByTs_BeforeEqual(sorted, x) ==
    IF sorted = <<>> THEN <<x>>
    ELSE IF sorted[Len(sorted)].ts < x.ts THEN Append(sorted, x)
    ELSE Append(InsertByTs_BeforeEqual(SubSeq(sorted, 1, Len(sorted) - 1), x),
                sorted[Len(sorted)])

\* list.sort(key=ts) is stable: x goes after every element whose ts is <= its own
RECURSIVE InsertByTs(_, _)
InsertByTs(sorted, x) ==
    IF sorted = <<>> THEN <<x>>
    ELSE IF sorted[Len(sorted)].ts <= x.ts THEN Append(sorted, x)
    ELSE Append(InsertByTs(SubSeq(sorted, 1, Len(sorted) - 1), x), sorted[Len(sorted)])

RECURSIVE SortByTs(_)
SortByTs(s) ==
    IF s = <<>> THEN <<>>
    ELSE InsertByTs(SortByTs(SubSeq(s, 1, Len(s) - 1)), s[Len(s)])

\* Candidates with the window's start excluded
Candidates_OpenStart(bs, day, window) ==
    LET start_dt == Combine(day, window[1])
        end_dt   == Combine(day, window[2])
        InWindow(b) == start_dt < b.ts /\ b.ts <= end_dt
    IN  SelectSeq(bs, InWindow)

\* the candidates of line 213
Candidates(bs, day, window) ==
    LET start_dt == Combine(day, window[1])
        end_dt   == Combine(day, window[2])
        InWindow(b) == start_dt <= b.ts /\ b.ts <= end_dt
    IN  SelectSeq(bs, InWindow)

\* the picked block as <<block>>, or <<>> for None
pick_block_for_window(bs, day, window) ==
    LET candidates == Candidates(bs, day, window) IN
    IF candidates = <<>> THEN <<>>
    ELSE LET sorted == SortByTs(candidates) IN <<sorted[Len(sorted)]>>

\* build_rows.status_for_window
status_for_window(bs, day, win, typ) ==
    LET pick == pick_block_for_window(bs, day, win) IN
    IF pick = <<>>
    THEN [status |-> "WAITING", info |-> <<>>, caution |-> <<>>]
    ELSE LET c == classify_block_status(pick[1].text, typ) IN
         [status |-> c.status, info |-> c.info, caution |-> c.caution]

----------------------------------------------------------------------------
(* The EarlyRun log and the dashboard run (ice_status_all.py build_rows) *)

\* instants the log's lines are stamped with: around the EarlyRun window's
\* bounds, the bound Latest1 and Latest2 share, the window's start a day later
TBefore == Combine(Day, WINDOWS.EarlyRun[1]) - 1
TStart  == Combine(Day, WINDOWS.EarlyRun[1])
TMid    == Combine(Day, Time(10, 0))
TEnd    == Combine(Day, WINDOWS.EarlyRun[2])
TAfter  == Combine(Day, WINDOWS.EarlyRun[2]) + 1
TShared == Combine(Day, WINDOWS.Latest1[2])
TNextDay == Combine(Day + 1, WINDOWS.EarlyRun[1])

EndLines ==
    {L(t, "endok", <<>>) : t \in {None, TBefore, TStart, TEnd, TAfter, TShared, TNextDay}}

PlainLines == {L(None, "plain", <<>>), L(TMid, "plain", <<>>)}

MarkerLines ==
    {L(TMid, "enderr", <<>>),
     L(TMid, "valerr", <<2>>),
     L(TMid, "missclr", <<0>>), L(TMid, "missclr", <<2>>),
     L(TMid, "missqtb", <<0>>), L(TMid, "missqtb", <<3>>),
     L(TMid, "warn", <<1>>), L(TMid, "warn", <<2>>)}

EarlyLines == EndLines \cup PlainLines \cup MarkerLines

NoSlot == [win |-> <<>>, pick |-> <<>>, status |-> "WAITING", info |-> <<>>, caution |-> <<>>]

\* the job appends a line to its EarlyRun log
WriteLine(l) ==
    /\ pc = "log"
    /\ Len(early_text) < MaxLines
    /\ early_text' = Append(early_text, l)
    /\ UNCHANGED <<pc, blocks, slot, evalVars, rowVars, summaryVars, audVars>>

\* build_rows lines 398-403: read the EarlyRun log and split it into runs
ParseEarly ==
    /\ pc = "log"
    /\ blocks' = IF early_text # <<>> THEN split_runs_early(early_text) ELSE <<>>
    /\ pc' = "rows"
    /\ UNCHANGED <<early_text, slot, evalVars, rowVars, summaryVars, audVars>>

\* build_rows lines 405-415: status_for_window for one of the WINDOWS
StatusForWindow(w) ==
    /\ pc = "rows"
    /\ LET r == status_for_window(blocks, Day, WINDOWS[w], "Index") IN
       slot' = [win |-> <<w>>, pick |-> pick_block_for_window(blocks, Day, WINDOWS[w]),
                status |-> r.status, info |-> r.info, caution |-> r.caution]
    /\ UNCHANGED <<early_text, pc, blocks, evalVars, rowVars, summaryVars, audVars>>

AllInit ==
    /\ early_text = <<>>
    /\ pc = "log"
    /\ blocks = <<>>
    /\ slot = NoSlot

EvalInit ==
    /\ script = "none"
    /\ block_lines = <<>>
    /\ evaluated = [done |-> FALSE, status |-> "TBC", reasons |-> <<>>]

\* a log file: absent, there but not to be opened for reading (a directory
\* at its path, a file the user may not read), or there with its lines
Absent == [state |-> "absent", lines |-> <<>>]
Unreadable == [state |-> "unreadable", lines |-> <<>>]
Created == [state |-> "present", lines |-> <<>>]

\* read_text(path): None for a missing file and the text of one that is
\* read; any other failure of open is raised to the caller
read_text(f) ==
    [raised |-> f.state = "unreadable",
     found  |-> f.state = "present",
     lines  |-> f.lines]

\* build_rows before it built the row; raised says that it ended with an
\* exception instead of a row
NoRow == [built |-> FALSE, raised |-> FALSE, typ |-> "none",
          early_status |-> "none", latest1_status |-> "none",
          latest2_status |-> "none", final_status |-> "none",
          slots |-> <<>>, info_lines |-> <<>>, caution_lines |-> <<>>]

RowInit ==
    /\ early_file = Absent
    /\ final_file = Absent
    /\ row = NoRow

SummaryInit ==
    /\ summary_text = Absent
    /\ summary_status = "none"

\* ice_status_aud main before it ran: its arguments, server_hm, whether the
\* file gave lines, the block and start_ts extracted, evaluate_block's result
NoRun == [done |-> FALSE, date |-> None, schedule |-> "none", slot |-> "none",
          server_tz |-> "none", server_hm |-> None, window |-> None,
          found |-> FALSE,
          block |-> <<>>, start_ts |-> None, status |-> "TBC", reasons |-> <<>>]

AudInit ==
    /\ aud_log = <<>>
    /\ aud_run = NoRun

Init == AllInit /\ EvalInit /\ RowInit /\ SummaryInit /\ AudInit

Next ==
    \/ \E l \in EarlyLines : WriteLine(l)
    \/ ParseEarly
    \/ \E w \in WindowNames : StatusForWindow(w)

Spec == Init /\ [][Next]_vars

----------------------------------------------------------------------------
(* ice_status_aud.py and file2audforus.py: evaluate_block *)

\* a reason: its text, and for the totals-mismatch reason the figures it cites
Reason(msg) == [msg |-> msg, figures |-> <<>>]

\* 'NA' in the mismatch reason, where a total was not found
NA == <<>>

\* a pattern: the kinds of marker whose text it finds, and whether it ends
\* with \s*(\d+), the figure that must follow the marker's text
Pattern(kinds, group) == [kinds |-> kinds, group |-> group]

\* the regular expressions both scripts share
GOODFILES_RE     == Pattern({"good"}, FALSE)
BADFILES_RE      == Pattern({"bad"}, FALSE)
TOTAL_SUB_RE     == Pattern({"sub"}, TRUE)
TOTAL_VAL_RE     == Pattern({"val"}, TRUE)
TOTAL_CONTRIB_RE == Pattern({"con"}, TRUE)
END_OK_RE        == Pattern({"endok"}, FALSE)
END_ERR_RE       == Pattern({"enderr"}, FALSE)

\* ice_status_aud.py: \(100(\.\d+)?%\) and "Skipping auto submission"
PCT_100_RE_aud == Pattern({"pct", "pctdec"}, FALSE)
SKIP_RE_aud    == Pattern({"skipauto"}, FALSE)

\* file2audforus.py: \(100% and "Skipping submission"
PCT_100_RE_f2a == Pattern({"pct"}, FALSE)
SKIP_RE_f2a    == Pattern({"skipsub"}, FALSE)

\* the first match of the pattern from marker k of line i on, as <<line,
\* marker>>; <<>> when there is none
RECURSIVE SearchFrom(_, _, _, _)
SearchFrom(pattern, blob, i, k) ==
    IF i > Len(blob) THEN <<>>
    ELSE IF k > Len(blob[i].marks) THEN SearchFrom(pattern, blob, i + 1, 1)
    ELSE IF /\ blob[i].marks[k].kind \in pattern.kinds
            /\ pattern.group => Figure(blob, i, k) # <<>>
         THEN <<i, k>>
    ELSE SearchFrom(pattern, blob, i, k + 1)

\* pattern.search(blob): the match, <<>> for None
ReSearch(pattern, blob) == SearchFrom(pattern, blob, 1, 1)

\* m.group(1) of a match
Group1(blob, m) == Figure(blob, m[1], m[2])

\* HardFailure with the BadFiles test left out
HardFailure_NoBadFiles(blob, skip_re) ==
    \/ ReSearch(END_ERR_RE, blob) # <<>>
    \/ ReSearch(skip_re, blob) # <<>>

\* the immediate NOK markers: end_err or skip or badfiles
HardFailure(blob, skip_re) ==
    \/ ReSearch(END_ERR_RE, blob) # <<>>
    \/ ReSearch(skip_re, blob) # <<>>
    \/ ReSearch(BADFILES_RE, blob) # <<>>

\* total and sub_val == total.group(1): the total was found and its digit
\* string equals the submitted total's, character by character
TotalsMatch(blob, total_sub, total) ==
    total # <<>> /\ Group1(blob, total_sub) = Group1(blob, total)

\* the body both evaluate_block functions share, from the immediate NOK
\* markers on; mismatchMsg is the text that opens the mismatch reason
EvaluateBlob(blob, pct_re, skip_re, mismatchMsg) ==
    LET good          == ReSearch(GOODFILES_RE, blob)
        total_sub     == ReSearch(TOTAL_SUB_RE, blob)
        total_val     == ReSearch(TOTAL_VAL_RE, blob)
        total_contrib == ReSearch(TOTAL_CONTRIB_RE, blob)
        pct100        == ReSearch(pct_re, blob)
        end_ok        == ReSearch(END_OK_RE, blob)
        reasons ==
            (IF total_sub = <<>> THEN <<Reason("Missing 'Total Prices to be submitted'")>> ELSE <<>>)
            \o (IF total_val = <<>> /\ total_contrib = <<>>
                THEN <<Reason("No validated/contributed totals found")>> ELSE <<>>)
            \o (IF good = <<>> THEN <<Reason("No GoodFiles marker found")>> ELSE <<>>)
            \o (IF pct100 = <<>> THEN <<Reason("No 100% confirmation")>> ELSE <<>>)
            \o (IF end_ok = <<>> THEN <<Reason("No successful end marker")>> ELSE <<>>)
    IN  IF HardFailure(blob, skip_re)
        THEN [status |-> "NOK", reasons |-> <<Reason("Error/skip/badfiles marker detected")>>]
        ELSE IF good # <<>> /\ total_sub # <<>> /\ pct100 # <<>> /\ end_ok # <<>>
        THEN IF TotalsMatch(blob, total_sub, total_contrib)
             THEN [status |-> "OK",
                   reasons |-> <<Reason("SingleName: totals match + 100% + successful end")>>]
             ELSE IF TotalsMatch(blob, total_sub, total_val)
             THEN [status |-> "OK",
                   reasons |-> <<Reason("Index/IndexOption: totals match + 100% + successful end")>>]
             ELSE [status |-> "NOK",
                   reasons |-> <<[msg |-> mismatchMsg,
                                  figures |-> <<Group1(blob, total_sub),
                                                IF total_val # <<>> THEN Group1(blob, total_val) ELSE NA,
                                                IF total_contrib # <<>> THEN Group1(blob, total_contrib) ELSE NA>>]>>]
        ELSE [status |-> "NOK", reasons |-> reasons]

\* ice_status_aud.py evaluate_block(block_lines)
evaluate_block_aud(lines) ==
    IF lines = <<>>
    THEN [status |-> "TBC", reasons |-> <<Reason("No lines captured in the time window")>>]
    ELSE EvaluateBlob(lines, PCT_100_RE_aud, SKIP_RE_aud, "Totals mismatch")

\* file2audforus.py evaluate_block(blob)
evaluate_block_f2a(blob) ==
    EvaluateBlob(blob, PCT_100_RE_f2a, SKIP_RE_f2a, "Mismatch between totals")

----------------------------------------------------------------------------
(* The block a script captured, and its evaluation *)

Scripts == {"aud", "f2a"}

\* the lines a captured block is made of, each beginning with its stamp: the
\* markers one to a line; a submitted total whose line ends before its
\* figure; lines with a validated total and, after it, the 100% marker in
\* one and in the other spelling; the skip line the script's own SKIP_RE
\* finds
BlockLines(p) ==
    {L(TMid, "good", <<>>),
     L(TMid, "sub", <<1, 0, 0>>), L(TMid, "sub", <<>>),
     L(TMid, "val", <<1, 0, 0>>),
     With(L(TMid, "val", Year), "pct", <<>>),
     L(TMid, "con", <<1, 0, 0>>), L(TMid, "con", <<0, 1, 0, 0>>),
     With(L(TMid, "val", <<1, 0, 0>>), "pctdec", <<>>),
     L(TMid, "pct", <<>>),
     L(TMid, "endok", <<>>), L(TMid, "enderr", <<>>),
     L(TMid, IF p = "aud" THEN "skipauto" ELSE "skipsub", <<>>),
     L(TMid, "bad", <<>>)}

\* one of the two scripts is started
RunScript(p) ==
    /\ script = "none"
    /\ script' = p
    /\ UNCHANGED <<block_lines, evaluated, allVars, rowVars, summaryVars, audVars>>

\* the script's block extraction captures one more line
CaptureLine(l) ==
    /\ script # "none"
    /\ ~evaluated.done
    /\ Len(block_lines) < MaxBlockLen
    /\ block_lines' = Append(block_lines, l)
    /\ UNCHANGED <<script, evaluated, allVars, rowVars, summaryVars, audVars>>

\* ice_status_aud.py main, line 249: evaluate_block(block)
EvaluateAud ==
    /\ script = "aud"
    /\ ~evaluated.done
    /\ LET r == evaluate_block_aud(block_lines) IN
       evaluated' = [done |-> TRUE, status |-> r.status, reasons |-> r.reasons]
    /\ UNCHANGED <<script, block_lines, allVars, rowVars, summaryVars, audVars>>

\* file2audforus.py main, lines 139-144: evaluate_block(block); an empty
\* capture is reported TBC without evaluate_block being called
EvaluateF2A ==
    /\ script = "f2a"
    /\ ~evaluated.done
    /\ block_lines # <<>>
    /\ LET r == evaluate_block_f2a(block_lines) IN
       evaluated' = [done |-> TRUE, status |-> r.status, reasons |-> r.reasons]
    /\ UNCHANGED <<script, block_lines, allVars, rowVars, summaryVars, audVars>>

NextEval ==
    \/ \E p \in Scripts : RunScript(p)
    \/ \E l \in BlockLines(script) : CaptureLine(l)
    \/ EvaluateAud
    \/ EvaluateF2A

SpecEval == Init /\ [][NextEval]_vars

----------------------------------------------------------------------------
(* Properties of evaluate_block, checked under SpecEval *)

\* the markers of the text with their figures as written, from left to
\* right and line after line
RECURSIVE MarksOf(_)
MarksOf(b) ==
    IF b = <<>> THEN <<>>
    ELSE MarksOf(SubSeq(b, 1, Len(b) - 1)) \o b[Len(b)].marks

\* the text holds a marker of one of the kinds
HasKind(b, kinds) == \E i \in 1..Len(b) : Holds(b[i], kinds)

\* the figures the text reports for the kind, in order: those written after
\* a marker of the kind
Reported(b, kind) ==
    LET IsOne(m) == m.kind = kind /\ m.arg # <<>>
        ArgOf(ms) == [k \in 1..Len(ms) |-> ms[k].arg]
    IN  ArgOf(SelectSeq(MarksOf(b), IsOne))

\* the skip marker of the script: "Skipping auto submission" for
\* ice_status_aud.py, "Skipping submission" for file2audforus.py
OwnSkip(p) == IF p = "aud" THEN "skipauto" ELSE "skipsub"

\* the block holds the error-termination, skip or bad-input marker
HasHardMarker(b, p) == HasKind(b, {"enderr", "bad", OwnSkip(p)})

\* the first figure the text reports for the kind, NA when it reports none
FirstFigure(b, kind) ==
    IF Reported(b, kind) = <<>> THEN NA ELSE Reported(b, kind)[1]

\* a non-empty block has been evaluated
Evaluated == evaluated.done /\ block_lines # <<>>

\* C1: a non-empty block that holds the error-termination marker, the skip
\* marker or the bad-input marker evaluates to NOK with the single reason
\* "Error/skip/badfiles marker detected", whatever else it holds.
C1_HardMarkerIsNOK ==
    (Evaluated /\ HasHardMarker(block_lines, script))
        => /\ evaluated.status = "NOK"
           /\ evaluated.reasons = <<Reason("Error/skip/badfiles marker detected")>>

\* a block with the good-input, 100% and successful-end markers and, after
\* them, the bad-input marker has been evaluated
C1_Witness ==
    /\ Evaluated
    /\ HasKind(block_lines, {"good"})
    /\ HasKind(block_lines, {"pct"})
    /\ HasKind(block_lines, {"endok"})
    /\ Holds(block_lines[Len(block_lines)], {"bad"})
    /\ evaluated.status = "NOK"

\* the 100%-complete marker, in either spelling
Pct100 == {"pct", "pctdec"}

\* every success marker but the validated/contributed total: the good-input
\* marker, a submitted-total figure, a 100%-complete marker and the
\* successful-termination marker
OtherSuccessMarkers(b) ==
    /\ HasKind(b, {"good"})
    /\ Reported(b, "sub") # <<>>
    /\ HasKind(b, Pct100)
    /\ HasKind(b, {"endok"})

\* a validated or a contributed total of the block (the first it reports)
\* is the submitted total's digit string
SomeTotalEqual(b) ==
    \/ Reported(b, "val") # <<>> /\ FirstFigure(b, "val") = FirstFigure(b, "sub")
    \/ Reported(b, "con") # <<>> /\ FirstFigure(b, "con") = FirstFigure(b, "sub")

\* C3: evaluate_block returns OK exactly when the block holds no hard-failure
\* marker and holds the good-input marker, a submitted-total figure, a
\* 100%-complete marker, the successful-termination marker and a validated
\* or contributed total figure equal to the submitted total's character by
\* character; with every other success marker present and neither total
\* equal, the result is NOK.
C3_OkIffSuccessComposite ==
    Evaluated =>
        /\ evaluated.status = "OK"
             <=> /\ ~HasHardMarker(block_lines, script)
                 /\ OtherSuccessMarkers(block_lines)
                 /\ SomeTotalEqual(block_lines)
        /\ (OtherSuccessMarkers(block_lines) /\ ~SomeTotalEqual(block_lines))
             => evaluated.status = "NOK"

\* the reasons that name the required markers the block lacks
MissingReasons(b) ==
    (IF Reported(b, "sub") = <<>>
     THEN <<Reason("Missing 'Total Prices to be submitted'")>> ELSE <<>>)
    \o (IF Reported(b, "val") = <<>> /\ Reported(b, "con") = <<>>
        THEN <<Reason("No validated/contributed totals found")>> ELSE <<>>)
    \o (IF ~HasKind(b, {"good"}) THEN <<Reason("No GoodFiles marker found")>> ELSE <<>>)
    \o (IF ~HasKind(b, Pct100) THEN <<Reason("No 100% confirmation")>> ELSE <<>>)
    \o (IF ~HasKind(b, {"endok"}) THEN <<Reason("No successful end marker")>> ELSE <<>>)

\* C4: a non-empty block with no hard-failure marker that lacks at least one
\* required success marker is classified WAITING (TBC, in the scripts'
\* words), with a reason naming each required marker it lacks.
C4_MissingMarkerIsWaiting ==
    (Evaluated /\ ~HasHardMarker(block_lines, script) /\ MissingReasons(block_lines) # <<>>)
        => /\ evaluated.status = "TBC"
           /\ evaluated.reasons = MissingReasons(block_lines)

----------------------------------------------------------------------------
(* The dashboard run on logs that hold WARN curve lines of every shape *)

\* longest such log, in lines
MaxNoteLines == 4

\* a run ending inside the EarlyRun window; an empty line; WARN curve lines
\* that begin with their timestamp, with other text before the timestamp
\* ("INFO 2024/01/02 10:00:00 WARN - ..."), with four digits that are no
\* timestamp ("2024 WARN - ...") and with nothing between the digits and
\* WARN ("2024WARN - ..."); a WARN entry in two lines ("2024/01/02 10:00:00
\* WARN", then "- Curve [1] not sent. Invalid !"); a WARN curve line that
\* goes on with a quotable count; the counts that place the notes and decide
\* the status, the clearable one also on a line that ends before its figure
NoteLogLines ==
    {L(TStart, "endok", <<>>),
     BlankLine,
     L(TMid, "warn", <<1>>),
     Line("text", TMid, "warn", <<1>>),
     Line("digits", None, "warn", <<1>>),
     Line("glued", None, "warn", <<1>>),
     L(TMid, "warn", <<>>),
     Line("curve", None, "plain", <<>>),
     With(L(TMid, "warn", <<1>>), "missqtb", <<3>>),
     L(TMid, "missqtb", <<3>>),
     L(TMid, "valerr", <<1>>),
     L(TMid, "missclr", <<0>>), L(TMid, "missclr", <<2>>), L(TMid, "missclr", <<>>)}

\* the job appends a line to its EarlyRun log
WriteNoteLine(l) ==
    /\ pc = "log"
    /\ Len(early_text) < MaxNoteLines
    /\ early_text' = Append(early_text, l)
    /\ UNCHANGED <<pc, blocks, slot, evalVars, rowVars, summaryVars, audVars>>

NextNotes ==
    \/ \E l \in NoteLogLines : WriteNoteLine(l)
    \/ ParseEarly
    \/ \E w \in WindowNames : StatusForWindow(w)

SpecNotes == Init /\ [][NextNotes]_vars

----------------------------------------------------------------------------
(* Properties of the dashboard engine, checked under Spec and SpecNotes *)

\* status_for_window picked a block and classified it
Classified == slot.win # <<>> /\ slot.pick # <<>>

\* the text of the classified block
PickedText == slot.pick[1].text

\* the counts the block reports for the kind, as numbers
CountsIn(b, kind) ==
    {IntOf(Reported(b, kind)[k]) : k \in 1..Len(Reported(b, kind))}

\* C2: a classified block that holds the explicit error-termination marker
\* "Program is ending with error" gets the status NOK, whatever else it holds.
C2_ErrorMarkerIsNOK ==
    (Classified /\ HasKind(PickedText, {"enderr"})) => slot.status = "NOK"

\* C5: a closed block in which any "Missing Clearable Prices" count or any
\* "Validation Error(s)" count is positive gets the status NOK, although it
\* ends with the successful-termination marker.
C5_AnyPositiveCountIsNOK ==
    (Classified /\ \E n \in CountsIn(PickedText, "missclr") \cup CountsIn(PickedText, "valerr") : n > 0)
        => slot.status = "NOK"

\* the block reports a positive quotable-missing count, holds no
\* clearable-missing marker and reports no positive validation-error count
QuotableOnly(b) ==
    /\ \E n \in CountsIn(b, "missqtb") : n > 0
    /\ ~HasKind(b, {"missclr"})
    /\ \A n \in CountsIn(b, "valerr") : n = 0

\* the note says how many quotable prices are missing: it gives one of the
\* positive counts the block reports
MentionsCount(note, b) ==
    \E n \in CountsIn(note, "missqtb") : n > 0 /\ n \in CountsIn(b, "missqtb")

\* C6: a block that reports a positive quotable-missing count and no
\* clearable-missing marker, and otherwise satisfies the success conditions,
\* gets OK, an empty caution list and exactly one info note, which mentions
\* the quotable-missing count.
C6_OneInfoNoteWithCount ==
    (Classified /\ QuotableOnly(PickedText))
        => /\ slot.status = "OK"
           /\ slot.caution = <<>>
           /\ Len(slot.info) = 1
           /\ MentionsCount(slot.info[1], PickedText)

\* the block's warning lines: those that hold "Curve [...] not sent.
\* Invalid !", after WARN or as the second line of an entry broken there
WarningLines(b) ==
    {i \in 1..Len(b) :
        \/ \E k \in 1..Len(b[i].marks) :
              b[i].marks[k].kind = "warn" /\ b[i].marks[k].arg # <<>>
        \/ b[i].lead = "curve"}

\* the line is part of a note of the list
InNotes(line, notes) ==
    \E n \in 1..Len(notes) : \E k \in 1..Len(notes[n]) : notes[n][k] = line

\* C7: every warning line of a classified block is in exactly one note list
\* of the result, whatever the status: in caution when the clearable-missing
\* count is positive (and the status is then NOK), in info in every other
\* case; none is dropped and none is in both lists.
C7_WarningsAlwaysKept ==
    Classified =>
        \A i \in WarningLines(PickedText) :
            IF \E n \in CountsIn(PickedText, "missclr") : n > 0
            THEN /\ InNotes(PickedText[i], slot.caution)
                 /\ ~InNotes(PickedText[i], slot.info)
                 /\ slot.status = "NOK"
            ELSE /\ InNotes(PickedText[i], slot.info)
                 /\ ~InNotes(PickedText[i], slot.caution)

\* the instants of the window of the last status_for_window call
WinStart == Combine(Day, WINDOWS[slot.win[1]][1])
WinEnd   == Combine(Day, WINDOWS[slot.win[1]][2])

\* the indices of the blocks whose instant lies in the window, bounds included
Qualifying == {i \in 1..Len(blocks) : WinStart <= blocks[i].ts /\ blocks[i].ts <= WinEnd}

\* C8: pick_block_for_window returns no block exactly when no block's
\* instant lies in [start, end] on the date, both bounds included: a block
\* at start or at end is selectable, one a second before start or a
\* second after end (or at the same time on another date) is not; and with
\* no block the slot is WAITING with empty note lists.
C8_NoBlockIffNoneInWindow ==
    slot.win # <<>> =>
        /\ slot.pick = <<>> <=> Qualifying = {}
        /\ (\E i \in 1..Len(blocks) : blocks[i].ts \in {WinStart, WinEnd}) => slot.pick # <<>>
        /\ (\A i \in 1..Len(blocks) : blocks[i].ts \in {WinStart - 1, WinEnd + 1,
                                                        WinStart + 24 * 3600})
              => slot.pick = <<>>
        /\ slot.pick = <<>> =>
              /\ slot.status = "WAITING"
              /\ slot.info = <<>>
              /\ slot.caution = <<>>

\* three blocks, ending a second before the window, a second after it and
\* at its start a day later: none is picked
C8_Witness ==
    /\ slot.win = <<"EarlyRun">>
    /\ {blocks[i].ts : i \in 1..Len(blocks)} = {TBefore, TAfter, TNextDay}
    /\ slot.pick = <<>>
    /\ slot.status = "WAITING"

\* C9: with two or more blocks in the window, the picked block has the
\* greatest instant of them, wherever it stands in the list, and of several
\* with that instant it is the last in log order.
C9_LatestWins ==
    (slot.win # <<>> /\ Cardinality(Qualifying) >= 2) =>
        /\ slot.pick # <<>>
        /\ \A i \in Qualifying : blocks[i].ts <= slot.pick[1].ts
        /\ LET Latest == {i \in Qualifying : blocks[i].ts = slot.pick[1].ts}
           IN  slot.pick[1] = blocks[CHOOSE i \in Latest : \A j \in Latest : j <= i]

\* two blocks at the window's end followed by one at its start: the second
\* is picked
C9_Witness ==
    /\ slot.win = <<"EarlyRun">>
    /\ Len(blocks) = 3
    /\ blocks[1].ts = TEnd /\ blocks[2].ts = TEnd /\ blocks[3].ts = TStart
    /\ slot.pick = <<blocks[2]>>

\* the indices of the log's completion-marker lines
EndIndices == {i \in 1..Len(early_text) : Holds(early_text[i], {"endok"})}

\* C10: the blocks split_runs_early returns are in log order and do not
\* overlap; each is a non-empty run of consecutive lines that begins at the
\* first line or right after a completion-marker line, ends with a
\* completion-marker line and holds no other; the lines after the last
\* completion marker are in no block.
C10_BlocksPartitionRuns ==
    pc = "rows" =>
        /\ \A k \in 1..Len(blocks) :
              LET b == blocks[k] IN
              /\ 1 <= b.lo /\ b.lo <= b.hi /\ b.hi <= Len(early_text)
              /\ b.text = SubSeq(early_text, b.lo, b.hi)
              /\ b.text # <<>>
              /\ b.lo = 1 \/ (b.lo - 1) \in EndIndices
              /\ b.hi \in EndIndices
              /\ \A i \in b.lo..(b.hi - 1) : i \notin EndIndices
        /\ \A k \in 1..(Len(blocks) - 1) : blocks[k].hi < blocks[k + 1].lo
        /\ \A i \in 1..Len(early_text) :
              (\A e \in EndIndices : e < i)
                 => \A k \in 1..Len(blocks) : i \notin blocks[k].lo..blocks[k].hi

\* a log of a run that ends without any timestamp, a second run, and the
\* first line of a run in progress: one block, the second run
C10_Witness ==
    /\ pc = "rows"
    /\ Len(early_text) = 3
    /\ Holds(early_text[1], {"endok"})
    /\ ~Holds(early_text[Len(early_text)], {"endok"})
    /\ Len(blocks) = 1
    /\ blocks[1].lo = 2
    /\ blocks[1].hi = Len(early_text) - 1

----------------------------------------------------------------------------
(* The nominal instant of a block, checked under Spec *)

\* the indices of the block's own lines that carry a parseable timestamp
StampedIn(b) == {i \in b.lo..b.hi : early_text[i].ts >= 0}

\* C11: the nominal instant of every returned block is that of its own
\* terminating line when the line has a parseable timestamp, and otherwise
\* that of the latest timestamped line of the same block; no line of an
\* earlier block supplies it.
C11_InstantFromOwnBlock ==
    pc = "rows" =>
        \A k \in 1..Len(blocks) :
            LET b == blocks[k]
                I == StampedIn(b)
            IN  /\ I # {}
                /\ b.ts = early_text[CHOOSE i \in I : \A j \in I : j <= i].ts

\* C12: a block none of whose own lines carries a parseable timestamp is
\* never the block picked for a window.
C12_UnstampedBlockNeverPicked ==
    Classified => StampedIn(slot.pick[1]) # {}

----------------------------------------------------------------------------
(* pick_block_for_window on any window, start after end included *)

\* windows handed to pick_block_for_window: one of WINDOWS, the same with
\* start and end exchanged, and one of a single instant
TestWindows ==
    [EarlyRun |-> WINDOWS.EarlyRun,
     Inverted |-> <<WINDOWS.EarlyRun[2], WINDOWS.EarlyRun[1]>>,
     Instant  |-> <<WINDOWS.EarlyRun[1], WINDOWS.EarlyRun[1]>>]

TestWindowNames == {"EarlyRun", "Inverted", "Instant"}

\* status_for_window called with a window given by the caller
PickForWindow(w) ==
    /\ pc = "rows"
    /\ LET r == status_for_window(blocks, Day, TestWindows[w], "Index") IN
       slot' = [win |-> <<w>>, pick |-> pick_block_for_window(blocks, Day, TestWindows[w]),
                status |-> r.status, info |-> r.info, caution |-> r.caution]
    /\ UNCHANGED <<early_text, pc, blocks, evalVars, rowVars, summaryVars, audVars>>

NextPick ==
    \/ \E l \in EarlyLines : WriteLine(l)
    \/ ParseEarly
    \/ \E w \in TestWindowNames : PickForWindow(w)

SpecPick == Init /\ [][NextPick]_vars

\* C17: selecting a block for a window whose start is later than its end
\* yields neither "no block" (WAITING) nor a selected block, but a distinct
\* error outcome.
C17_InvertedWindowIsError ==
    (slot.win # <<>> /\ TestWindows[slot.win[1]][1] > TestWindows[slot.win[1]][2])
        => /\ slot.status \notin {"WAITING", "OK", "NOK"}
           /\ slot.pick = <<>>

----------------------------------------------------------------------------
(* ice_status_all.py: the final slot and the row of build_rows *)

MaxEarlyLines == 3
MaxFinalLines == 3

FINAL_TIME_HINT == <<Time(16, 25), Time(16, 40)>>

\* "if not text": the text is None or ""
NoText(text) == ~text.found \/ text.lines = <<>>

parse_final_status_index_sn(text) ==
    IF NoText(text) THEN [status |-> "WAITING", info |-> <<>>, caution |-> <<>>]
    ELSE LET bs == split_runs_early(text.lines) IN
         IF bs = <<>> THEN [status |-> "WAITING", info |-> <<>>, caution |-> <<>>]
         ELSE LET c == classify_block_status(bs[Len(bs)].text, "Index/SingleName")
              IN  [status |-> c.status, info |-> c.info, caution |-> c.caution]

\* the figure of the last match of the kind's pattern among those that begin
\* with marker k of line i or after it, last when there is none (the loops
\* over finditer of lines 249-258)
RECURSIVE LastFrom(_, _, _, _, _)
LastFrom(text, kind, i, k, last) ==
    IF i > Len(text) THEN last
    ELSE IF k > Len(text[i].marks) THEN LastFrom(text, kind, i + 1, 1, last)
    ELSE IF text[i].marks[k].kind = kind /\ Figure(text, i, k) # <<>>
         THEN LastFrom(text, kind, i, k + 1, Figure(text, i, k))
    ELSE LastFrom(text, kind, i, k + 1, last)

\* rej (acc) after the loop: the last match's figure as an int, 0 when
\* nothing matched
LastCount(text, kind) == IntOf(LastFrom(text, kind, 1, 1, <<>>))

\* "settlement window is CLOSED" in text (the case is compared)
WindowClosed(lines) == \E i \in 1..Len(lines) : Holds(lines[i], {"closed"})

\* lines 259-265: the status from the two counts
SummaryStatus(rej, acc, closed) ==
    IF rej > 0 THEN "NOK"
    ELSE IF acc > 0 /\ closed THEN "OK"
    ELSE "WAITING"

parse_idxopt_final_from_summary(text) ==
    IF NoText(text) THEN "WAITING"
    ELSE SummaryStatus(LastCount(text.lines, "rej"), LastCount(text.lines, "acc"),
                       WindowClosed(text.lines))

InSeq(x, s) == \E i \in 1..Len(s) : s[i] = x

\* no dedupe at all
Dedupe_KeepAll(s) == s

\* list(dict.fromkeys(s)): each value once, at the place of its first occurrence
RECURSIVE DedupeFrom(_, _)
DedupeFrom(s, acc) ==
    IF s = <<>> THEN acc
    ELSE DedupeFrom(SubSeq(s, 2, Len(s)),
                    IF InSeq(s[1], acc) THEN acc ELSE Append(acc, s[1]))

Dedupe(s) == DedupeFrom(s, <<>>)

----------------------------------------------------------------------------
(* One row of the dashboard: its EarlyRun log, its FinalRun log or submission
   summary, and build_rows on the two *)

TFinal == Combine(Day, Time(16, 30))

\* a line with a quotable count and, after it, a WARN curve entry
QuotableWarn == With(L(TMid, "missqtb", <<3>>), "warn", <<1>>)

\* the EarlyRun log of the row: a run ending on the bound Latest1 and Latest2
\* share, and the line with the quotable count and the WARN curve entry
RowEarlyLines == {L(TShared, "endok", <<>>), QuotableWarn}

\* the final source of the row: a run ending at 10:00, outside
\* FINAL_TIME_HINT, and one ending at 16:30, inside it; the line of the
\* EarlyRun log spelt otherwise (two blanks after the stamp); a clearable
\* count; and a summary's rejected count
RowFinalLines ==
    {L(TMid, "endok", <<>>), L(TFinal, "endok", <<>>),
     Spelt(QuotableWarn, 1),
     L(TMid, "missclr", <<2>>),
     L(None, "rej", <<2>>)}

TYPES == {"Index", "SingleName", "IndexOption"}

\* the job creates its EarlyRun log
TouchEarly ==
    /\ ~row.built
    /\ early_file = Absent
    /\ early_file' = Created
    /\ UNCHANGED <<final_file, row, allVars, evalVars, summaryVars, audVars>>

\* what stands at the path of the EarlyRun log cannot be opened for reading
DenyEarly ==
    /\ ~row.built
    /\ early_file = Absent
    /\ early_file' = Unreadable
    /\ UNCHANGED <<final_file, row, allVars, evalVars, summaryVars, audVars>>

\* the job appends a line to its EarlyRun log
WriteEarly(l) ==
    /\ ~row.built
    /\ early_file.state = "present"
    /\ Len(early_file.lines) < MaxEarlyLines
    /\ early_file' = [early_file EXCEPT !.lines = Append(@, l)]
    /\ UNCHANGED <<final_file, row, allVars, evalVars, summaryVars, audVars>>

\* the job creates its FinalRun log (or the submission summary)
TouchFinal ==
    /\ ~row.built
    /\ final_file = Absent
    /\ final_file' = Created
    /\ UNCHANGED <<early_file, row, allVars, evalVars, summaryVars, audVars>>

\* what stands at the path of the final source cannot be opened for reading
DenyFinal ==
    /\ ~row.built
    /\ final_file = Absent
    /\ final_file' = Unreadable
    /\ UNCHANGED <<early_file, row, allVars, evalVars, summaryVars, audVars>>

\* the job appends a line to its FinalRun log (or the submission summary)
WriteFinal(l) ==
    /\ ~row.built
    /\ final_file.state = "present"
    /\ Len(final_file.lines) < MaxFinalLines
    /\ final_file' = [final_file EXCEPT !.lines = Append(@, l)]
    /\ UNCHANGED <<early_file, row, allVars, evalVars, summaryVars, audVars>>

\* build_rows lines 399-403: the blocks of the row's EarlyRun log
RowBlocks(text) == IF NoText(text) THEN <<>> ELSE split_runs_early(text.lines)

\* build_rows lines 417-423: the final slot of a row
FinalSlot(text, typ) ==
    IF typ # "IndexOption" THEN parse_final_status_index_sn(text)
    ELSE [status |-> parse_idxopt_final_from_summary(text), info |-> <<>>, caution |-> <<>>]

\* build_rows lines 398-450 for one (region, typ): the row and its notes, or
\* the exception of a read_text
BuildRow(typ) ==
    /\ ~row.built
    /\ LET early_read == read_text(early_file)
           final_read == read_text(final_file)
           bs    == RowBlocks(early_read)
           early == status_for_window(bs, Day, WINDOWS.EarlyRun, typ)
           l1    == status_for_window(bs, Day, WINDOWS.Latest1, typ)
           l2    == status_for_window(bs, Day, WINDOWS.Latest2, typ)
           fin   == FinalSlot(final_read, typ)
       IN  row' = IF early_read.raised \/ final_read.raised
                  THEN [NoRow EXCEPT !.built = TRUE, !.raised = TRUE, !.typ = typ]
                  ELSE [built |-> TRUE, raised |-> FALSE, typ |-> typ,
                        early_status   |-> early.status,
                        latest1_status |-> l1.status,
                        latest2_status |-> l2.status,
                        final_status   |-> fin.status,
                        slots |-> <<early, l1, l2, fin>>,
                        info_lines    |-> Dedupe(early.info \o l1.info \o l2.info \o fin.info),
                        caution_lines |-> Dedupe(early.caution \o l1.caution
                                                 \o l2.caution \o fin.caution)]
    /\ UNCHANGED <<early_file, final_file, allVars, evalVars, summaryVars, audVars>>

NextRow ==
    \/ TouchEarly
    \/ DenyEarly
    \/ \E l \in RowEarlyLines : WriteEarly(l)
    \/ TouchFinal
    \/ DenyFinal
    \/ \E l \in RowFinalLines : WriteFinal(l)
    \/ \E typ \in TYPES : BuildRow(typ)

SpecRow == Init /\ [][NextRow]_vars

----------------------------------------------------------------------------
(* The final slot, missing sources and the notes of a row, checked under SpecRow *)

\* build_rows returned the row
Built == row.built /\ ~row.raised

\* the blocks of the final log whose instant lies in FINAL_TIME_HINT
FinalInHint ==
    Candidates(RowBlocks(read_text(final_file)), Day, FINAL_TIME_HINT)

FromLog == Built /\ row.typ # "IndexOption"

\* C13: for an Index or SingleName final log in which no closed block has
\* its instant inside the final window, the final status is WAITING; the
\* final status is never taken from a block that ended outside the window.
C13_FinalObeysWindow ==
    (FromLog /\ FinalInHint = <<>>) => row.final_status = "WAITING"

\* the source is absent, cannot be read, or has zero lines
NoSource(f) == f.state \in {"absent", "unreadable"} \/ f.lines = <<>>

\* C14: when a log source is absent, unreadable or has zero lines, no error
\* is raised and every slot computed from the source (early, latest-1,
\* latest-2 from the EarlyRun log; final from the final log or the summary;
\* for every submission type) is WAITING with empty info and caution lists.
C14_NoSourceIsWaiting ==
    row.built =>
        /\ NoSource(early_file) =>
              /\ ~row.raised
              /\ row.early_status = "WAITING"
              /\ row.latest1_status = "WAITING"
              /\ row.latest2_status = "WAITING"
              /\ \A k \in 1..3 : row.slots[k].info = <<>> /\ row.slots[k].caution = <<>>
        /\ NoSource(final_file) =>
              /\ ~row.raised
              /\ row.final_status = "WAITING"
              /\ row.slots[4].info = <<>> /\ row.slots[4].caution = <<>>

\* the index of the first occurrence of x in s
FirstIndex(x, s) == CHOOSE i \in 1..Len(s) : s[i] = x /\ \A j \in 1..(i - 1) : s[j] # x

\* n holds exactly the distinct values of cat, each once, in the order of
\* their first occurrence in cat
DistinctInOrder(n, cat) ==
    /\ {n[i] : i \in 1..Len(n)} = {cat[i] : i \in 1..Len(cat)}
    /\ \A i, j \in 1..Len(n) : i < j => /\ n[i] # n[j]
                                        /\ FirstIndex(n[i], cat) < FirstIndex(n[j], cat)

\* the four slots' info (caution) lists in the order early, latest-1,
\* latest-2, final
SlotInfo == row.slots[1].info \o row.slots[2].info \o row.slots[3].info \o row.slots[4].info
SlotCaution ==
    row.slots[1].caution \o row.slots[2].caution \o row.slots[3].caution \o row.slots[4].caution

\* C15: aggregation leaves the four slot statuses unchanged; the row's info
\* (caution) list holds exactly the distinct lines of the four slots' info
\* (caution) lists, each once, ordered by first appearance in the
\* concatenation early, latest-1, latest-2, final; aggregating the
\* aggregated lists again changes nothing.
C15_NotesDistinctInOrder ==
    Built =>
        /\ row.early_status = row.slots[1].status
        /\ row.latest1_status = row.slots[2].status
        /\ row.latest2_status = row.slots[3].status
        /\ row.final_status = row.slots[4].status
        /\ DistinctInOrder(row.info_lines, SlotInfo)
        /\ DistinctInOrder(row.caution_lines, SlotCaution)
        /\ Dedupe(row.info_lines) = row.info_lines
        /\ Dedupe(row.caution_lines) = row.caution_lines

\* a row whose slots give the same line twice and then the line spelt
\* otherwise: the first and the other spelling are kept
C15_Witness ==
    /\ Built
    /\ Len(SlotInfo) = 3
    /\ SlotInfo[1] = SlotInfo[2]
    /\ SlotInfo[3] = <<Spelt(SlotInfo[1][1], 1)>>
    /\ row.info_lines = <<SlotInfo[1], SlotInfo[3]>>

----------------------------------------------------------------------------
(* ice_status_all.py: the IndexOption submission summary *)

MaxSummaryLines == 4

\* the lines of a summary: counts, a rejected marker that ends its line, a
\* stamped line with an accepted count, the closing sentence in both cases
SummaryLines ==
    {L(None, "rej", <<0>>), L(None, "rej", <<2>>), L(None, "rej", <<>>),
     L(None, "acc", <<0>>), L(TFinal, "acc", <<5>>),
     L(None, "closed", <<>>), L(None, "closedlc", <<>>)}

\* the submission creates its summary file
TouchSummary ==
    /\ summary_status = "none"
    /\ summary_text = Absent
    /\ summary_text' = Created
    /\ UNCHANGED <<summary_status, allVars, evalVars, rowVars, audVars>>

\* what stands at the path of the summary cannot be opened for reading
DenySummary ==
    /\ summary_status = "none"
    /\ summary_text = Absent
    /\ summary_text' = Unreadable
    /\ UNCHANGED <<summary_status, allVars, evalVars, rowVars, audVars>>

\* the submission appends a line to its summary file
WriteSummary(l) ==
    /\ summary_status = "none"
    /\ summary_text.state = "present"
    /\ Len(summary_text.lines) < MaxSummaryLines
    /\ summary_text' = [summary_text EXCEPT !.lines = Append(@, l)]
    /\ UNCHANGED <<summary_status, allVars, evalVars, rowVars, audVars>>

\* build_rows line 422: parse_idxopt_final_from_summary(read_text(final_server)),
\* "raised" when read_text raises
ParseSummary ==
    /\ summary_status = "none"
    /\ LET text == read_text(summary_text) IN
       summary_status' = IF text.raised THEN "raised"
                         ELSE parse_idxopt_final_from_summary(text)
    /\ UNCHANGED <<summary_text, allVars, evalVars, rowVars, audVars>>

NextSummary ==
    \/ TouchSummary
    \/ DenySummary
    \/ \E l \in SummaryLines : WriteSummary(l)
    \/ ParseSummary

SpecSummary == Init /\ [][NextSummary]_vars

\* the count the summary reports last after a marker of the kind, 0 when it
\* reports none
LastReported(kind) ==
    LET r == Reported(summary_text.lines, kind) IN
    IF r = <<>> THEN 0 ELSE IntOf(r[Len(r)])

SaysClosed ==
    \E i \in 1..Len(summary_text.lines) : Holds(summary_text.lines[i], {"closed"})

\* the summary was read and parsed
Parsed == summary_status \notin {"none", "raised"}

\* C20: parse_idxopt_final_from_summary decides from the last reported
\* rejected count and the last reported accepted count: NOK whenever the
\* last rejected count is positive, even if the accepted count is positive
\* and the settlement window is closed; otherwise OK exactly when the last
\* accepted count is positive and the text contains "settlement window is
\* CLOSED"; otherwise WAITING; empty or missing text gives WAITING.
C20_SummaryByLastCounts ==
    Parsed =>
        /\ LastReported("rej") > 0 => summary_status = "NOK"
        /\ LastReported("rej") <= 0 =>
              /\ (summary_status = "OK") <=> (LastReported("acc") > 0 /\ SaysClosed)
              /\ summary_status \in {"OK", "WAITING"}
        /\ summary_text.lines = <<>> => summary_status = "WAITING"

----------------------------------------------------------------------------
(* ice_status_aud.py: the slot's server time and the block extracted for it.
   TS_RE is anchored: it matches the lines whose lead is "stamp", and the
   text it captures is what ts stands for.  Dates are of the year 2024, as
   days since 2024-01-01; an instant is seconds since 2024-01-01 00:00 on
   the clock it is read from. *)

MaxAudLines == 3

WINDOW_MINUTES == 3

DaySeconds == 24 * 3600

SLOTS_LOCAL_REGULAR ==
    [morning |-> Time(10, 0), late1 |-> Time(16, 0),
     late2 |-> Time(16, 15), final |-> Time(16, 30)]

SLOTS_LOCAL_EARLYCLOSE ==
    [morning |-> Time(7, 0), late1 |-> Time(12, 0),
     late2 |-> Time(12, 15), final |-> Time(12, 30)]

SlotNames == {"morning", "late1", "late2", "final"}

local_slot_time(schedule, slot_name) ==
    IF schedule = "regular" THEN SLOTS_LOCAL_REGULAR[slot_name]
    ELSE SLOTS_LOCAL_EARLYCLOSE[slot_name]

\* --date values, as days since 2024-01-01: 2024-01-02, 2024-07-02, and the
\* two days Europe's clocks change at noon in Sydney, 2024-03-31 (forward)
\* and 2024-10-27 (back)
DateJan == 0 + 1
DateJul == 182 + 1
DateMar == 90
DateOct == 300
Dates == {DateJan, DateMar, DateJul, DateOct}

\* zoneinfo in 2024.  Sydney is on summer time until 7 April, 03:00 on its
\* clock, and from 6 October, 03:00 on its clock (02:00 to 03:00 of that day
\* does not exist and is read with the offset of before); local_dt is a
\* time on Sydney's clock.
SydneySummer(local_dt) ==
    \/ local_dt < Combine(97, Time(3, 0))
    \/ local_dt >= Combine(279, Time(3, 0))

\* Europe is on summer time from 31 March, 01:00 UTC, until 27 October,
\* 01:00 UTC; utc_dt is an instant on the UTC clock.
EuropeSummer(utc_dt) ==
    utc_dt >= Combine(90, Time(1, 0)) /\ utc_dt < Combine(300, Time(1, 0))

\* hours ahead of UTC of the zone at the instant that is local_dt on Sydney's
\* clock: utcoffset() of local_dt (tzinfo=AUD_TZ) and of
\* local_dt.astimezone(ZoneInfo(tz))
UtcOffset(tz, local_dt) ==
    LET sydney == IF SydneySummer(local_dt) THEN 11 ELSE 10
        utc_dt == local_dt - sydney * 3600
    IN  CASE tz = "Australia/Sydney" -> sydney
          [] tz = "Europe/Paris"     -> IF EuropeSummer(utc_dt) THEN 2 ELSE 1
          [] tz = "Europe/London"    -> IF EuropeSummer(utc_dt) THEN 1 ELSE 0

ServerTzs == {"Europe/Paris", "Europe/London"}

\* the --window values: none, the default, and a wider one
Windows == {0, WINDOW_MINUTES, 10}

\* lines 90-93: server_dt, the instant of the slot on the server's clock
server_dt(d_folder, local_hm, server_tz_name) ==
    LET local_dt == Combine(d_folder, local_hm) IN
    local_dt - UtcOffset("Australia/Sydney", local_dt) * 3600
             + UtcOffset(server_tz_name, local_dt) * 3600

\* line 94: server_dt.time(), the date is dropped
local_to_server_time(d_folder, local_hm, server_tz_name) ==
    server_dt(d_folder, local_hm, server_tz_name) % DaySeconds

Abs(x) == IF x < 0 THEN 0 - x ELSE x
Min2(a, b) == IF a < b THEN a ELSE b

\* ts and target are times of day (seconds); hours and minutes are compared
within_window(ts, target, window_min) ==
    LET tmin == target \div 60
        smin == ts \div 60
        diff == Abs(smin - tmin)
    IN  Min2(diff, 24 * 60 - diff) <= window_min

\* finds "Program is ending", whatever follows it
END_MARKER_RE == {"endok", "enderr", "ending"}

\* TS_RE.match(line): the pattern ends in \b, so a stamp that a letter, a
\* digit or an underscore follows directly (lead "stampw") is not matched;
\* one that a blank, a comma or a colon follows is
TS_RE(line) == line.lead = "stamp"

\* the loop of lines 132-149 from line i on
RECURSIVE ExtractFrom(_, _, _, _, _, _, _)
ExtractFrom(lines, i, capturing, block, start_ts, target, window_min) ==
    IF i > Len(lines) THEN [block |-> block, start_ts |-> start_ts]
    ELSE LET line == lines[i] IN
         IF TS_RE(line) /\ line.ts >= 0 /\ ~capturing
               /\ within_window(line.ts % DaySeconds, target, window_min)
         THEN ExtractFrom(lines, i + 1, TRUE, Append(block, line), line.ts,
                          target, window_min)
         ELSE IF capturing
              THEN IF Holds(line, END_MARKER_RE)
                   THEN [block |-> Append(block, line), start_ts |-> start_ts]
                   ELSE ExtractFrom(lines, i + 1, capturing, Append(block, line),
                                    start_ts, target, window_min)
              ELSE ExtractFrom(lines, i + 1, capturing, block, start_ts,
                               target, window_min)

extract_block_around(lines, target_server_time, window_min) ==
    ExtractFrom(lines, 1, FALSE, <<>>, None, target_server_time, window_min)

\* lines 156-159: the greatest index <= i of a line END_MARKER_RE finds,
\* 0 when there is none
RECURSIVE LastEndMarker(_, _)
LastEndMarker(lines, i) ==
    IF i = 0 THEN 0
    ELSE IF Holds(lines[i], END_MARKER_RE) THEN i
    ELSE LastEndMarker(lines, i - 1)

\* lines 164-167: the greatest index <= i of a line TS_RE matches, 0 when
\* there is none
RECURSIVE LastTsLine(_, _)
LastTsLine(lines, i) ==
    IF i = 0 THEN 0
    ELSE IF TS_RE(lines[i]) THEN i
    ELSE LastTsLine(lines, i - 1)

extract_last_block(lines) ==
    LET end_idx == LastEndMarker(lines, Len(lines)) IN
    IF end_idx = 0 THEN [block |-> lines, start_ts |-> None]
    ELSE LET j         == LastTsLine(lines, end_idx)
             start_idx == IF j = 0 THEN 1 ELSE j
             block     == SubSeq(lines, start_idx, end_idx)
         IN  [block |-> block,
              start_ts |-> IF TS_RE(block[1]) THEN block[1].ts ELSE None]

----------------------------------------------------------------------------
(* The log ice_status_aud.py reads and one run of its main *)

\* instants the log's lines start with: the instant of the early-close
\* morning slot of 2024-01-02 on a Paris clock (21:00 of the day before),
\* the same time of day one day later, and the first minute after the window
THost      == server_dt(DateJan, SLOTS_LOCAL_EARLYCLOSE.morning, "Europe/Paris")
TOtherDate == THost + DaySeconds
TOutside   == THost + (WINDOW_MINUTES + 1) * 60

\* lines with and without a leading timestamp, one that starts with a
\* stamp that is no date, one whose stamp a letter follows directly, one
\* whose timestamp stands after other text, and one that says "Program is
\* ending now"
AudLines ==
    {L(t, k, <<>>) : t \in {None, THost, TOtherDate, TOutside}, k \in {"plain", "endok"}}
        \cup {Line("stamp", BadDate, "plain", <<>>), Line("stampw", THost, "plain", <<>>),
              Line("text", THost, "plain", <<>>), L(THost, "ending", <<>>)}

\* the job appends a line to the log
WriteAudLine(l) ==
    /\ ~aud_run.done
    /\ Len(aud_log) < MaxAudLines
    /\ aud_log' = Append(aud_log, l)
    /\ UNCHANGED <<aud_run, allVars, evalVars, rowVars, summaryVars>>

\* main lines 213-253 for one area
RunSlot(d, schedule, slot_name, server_tz_name, window_min) ==
    /\ ~aud_run.done
    /\ LET local_hm  == local_slot_time(schedule, slot_name)
           server_hm == local_to_server_time(d, local_hm, server_tz_name)
           x == IF slot_name = "final" THEN extract_last_block(aud_log)
                ELSE extract_block_around(aud_log, server_hm, window_min)
           r == evaluate_block_aud(x.block)
       IN  aud_run' =
             IF aud_log = <<>>
             THEN [NoRun EXCEPT !.done = TRUE, !.date = d, !.schedule = schedule,
                                !.slot = slot_name, !.server_tz = server_tz_name,
                                !.server_hm = server_hm, !.window = window_min,
                                !.reasons = <<Reason("file not found")>>]
             ELSE [done |-> TRUE, date |-> d, schedule |-> schedule, slot |-> slot_name,
                   server_tz |-> server_tz_name, server_hm |-> server_hm,
                   window |-> window_min,
                   found |-> TRUE, block |-> x.block, start_ts |-> x.start_ts,
                   status |-> r.status, reasons |-> r.reasons]
    /\ UNCHANGED <<aud_log, allVars, evalVars, rowVars, summaryVars>>

NextAud ==
    \/ \E l \in AudLines : WriteAudLine(l)
    \/ \E d \in Dates, schedule \in {"regular", "earlyclose"},
          slot_name \in SlotNames, server_tz_name \in ServerTzs,
          window_min \in Windows :
          RunSlot(d, schedule, slot_name, server_tz_name, window_min)

SpecAud == Init /\ [][NextAud]_vars

----------------------------------------------------------------------------
(* The block main extracts, checked under SpecAud *)

Around == aud_run.done /\ aud_run.found /\ aud_run.slot # "final"
Last   == aud_run.done /\ aud_run.found /\ aud_run.slot = "final"

\* the instant of the run's slot on the server's clock, date included
HostInstant ==
    server_dt(aud_run.date, local_slot_time(aud_run.schedule, aud_run.slot),
              aud_run.server_tz)

\* C16: the host-side target keeps the host's calendar date: when the
\* offset shift moves the slot instant onto another host day, the block
\* starts at a line stamped with that host date, never at a line that only
\* has the same time of day on another date.
C16_HostDateKept ==
    (Around /\ aud_run.block # <<>>) =>
        aud_run.block[1].ts \div DaySeconds = HostInstant \div DaySeconds

EndMarkers == {i \in 1..Len(aud_log) : Holds(aud_log[i], END_MARKER_RE)}

\* C18: for a final-run log with at least one "Program is ending" line,
\* extract_last_block returns every line after the preceding such line (or
\* from the start of the file) up to and including the last one; for a log
\* with no such line it returns no block.
C18_LastBlockWhole ==
    Last =>
        IF EndMarkers = {} THEN aud_run.block = <<>>
        ELSE LET hi == CHOOSE i \in EndMarkers : \A j \in EndMarkers : j <= i
                 before == EndMarkers \ {hi}
                 lo == IF before = {} THEN 1
                       ELSE 1 + CHOOSE i \in before : \A j \in before : j <= i
             IN  aud_run.block = SubSeq(aud_log, lo, hi)

\* the lines whose leading timestamp is within the window around the target
InWindowLines ==
    {i \in 1..Len(aud_log) :
        /\ aud_log[i].lead = "stamp"
        /\ aud_log[i].ts >= 0
        /\ within_window(aud_log[i].ts % DaySeconds, aud_run.server_hm, aud_run.window)}

\* C19: a non-empty block returned by extract_block_around starts at the
\* first line whose leading timestamp is within the window and ends at the
\* first "Program is ending" line at or after that line: its last line is an
\* end marker and no earlier line of the block is one.
C19_BlockEndsAtFirstMarker ==
    (Around /\ aud_run.block # <<>>) =>
        /\ InWindowLines # {}
        /\ LET lo == CHOOSE i \in InWindowLines : \A j \in InWindowLines : i <= j
               ends == {i \in EndMarkers : i >= lo}
           IN  /\ ends # {}
               /\ aud_run.block =
                     SubSeq(aud_log, lo, CHOOSE i \in ends : \A j \in ends : i <= j)

====
